---- MODULE Spec2Model ----
(***************************************************************************)
(* CellUniverse, src/main.py: the entry point of the cellanneal program.   *)
(*                                                                         *)
(* The model follows parse_args, get_inputfiles and main statement by      *)
(* statement.  The collaborators that main.py only calls (the dask         *)
(* client, load_config / load_colony, optimize, auto_temp_schedule,        *)
(* global_optimization.optimize) are opaque calls: a call either returns   *)
(* or raises, and a KeyboardInterrupt may be delivered while it runs.      *)
(*                                                                         *)
(* A frame file is identified by its index i: Path(args.input % i) is the  *)
(* file of index i, and "exists" is the set of indexes whose file exists   *)
(* and is a regular file.                                                  *)
(***************************************************************************)
EXTENDS Integers, Sequences, FiniteSets, TLC

\* ---------------------------------------------------------------- bounds
\* largest index of a frame file that may exist
MaxIdx == 2
\* largest number of cells of a colony returned by optimize
MaxCells == 2
\* largest temperature value (temperatures are 0..MaxTemp, or absent)
MaxTemp == 2
\* the value of multiprocessing.cpu_count()
CpuCount == 2

\* ------------------------------------------------------- option values
\* An optional float (the default of -ts / -te is None): <<>> is None,
\* <<t>> is the value t.
None == <<>>
Temps == {None} \cup {<<t>> : t \in 0..MaxTemp}

\* the line "file,name,x,y,width,length,rotation" of lineage.csv
Header == <<-1, 0>>

VARIABLES
    cli,            \* the command line as argparse parsed it (never changes)
    args,           \* the namespace handed to main (parse_args, setattr)
    exists,         \* indexes of the frame files that exist
    pc,             \* position of the program
    pending,        \* "none", "return", or the exception being propagated
    intAt,          \* position at which a KeyboardInterrupt was delivered
    client,         \* "unset", "None", "open"
    clientsCreated, \* number of Client(...) objects constructed
    lineagefile,    \* "None", "open", "closed"
    lineage,        \* lines printed to lineage.csv
    frames,         \* the list the frame loop iterates over
    fi,             \* 1-based position of the loop in frames
    colony,         \* number of cells of the colony optimize returned
    ci,             \* 1-based position of the row loop in colony
    committed,      \* colonies flattened so far: [file, cells]
    optimized,      \* frames optimize was called for, in call order
    optimizing,     \* frames whose optimize call has not returned yet
    calibrated,     \* number of auto_temp_schedule calls
    gif             \* outcome of the last get_inputfiles call

vars == <<cli, args, exists, pc, pending, intAt, client, clientsCreated,
          lineagefile, lineage, frames, fi, colony, ci, committed,
          optimized, optimizing, calibrated, gif>>

\* ------------------------------------------------------- get_inputfiles
NoCall == [called |-> FALSE, err |-> "none", files |-> <<>>, probes |-> <<>>]

\* line 125
InvertedInterval(a) == a.frame_first < a.frame_first /\ a.frame_last >= 0

\* line 127
NegativeFirst(a) == a.frame_first < 0

\* line 133: file.exists() and file.is_file()
FileExists(ex, i) == i \in ex

\* line 135 with the break one index late
BreakAtLastLate(a, i) == i = a.frame_last + 1

\* line 135
BreakAtLast(a, i) == i = a.frame_last

\* line 137 without the test that spares frame_first
StopAtAnyMissing(a, i) == a.frame_last < 0

\* line 137
StopAtMissing(a, i) == a.frame_last < 0 /\ a.frame_first # i

\* lines 130-140: the loop over count(frame_first); probes lists the indexes
\* whose existence was tested
RECURSIVE Scan(_, _, _, _, _)
Scan(a, ex, i, inputfiles, probes) ==
    IF FileExists(ex, i)
    THEN IF BreakAtLast(a, i)
         THEN [called |-> TRUE, err |-> "none",
               files |-> Append(inputfiles, i), probes |-> Append(probes, i)]
         ELSE Scan(a, ex, i + 1, Append(inputfiles, i), Append(probes, i))
    ELSE IF StopAtMissing(a, i)
         THEN [called |-> TRUE, err |-> "none",
               files |-> inputfiles, probes |-> Append(probes, i)]
         ELSE [called |-> TRUE, err |-> "InputFileNotFound",
               files |-> <<>>, probes |-> Append(probes, i)]

\* lines 121-142
GetInputFiles(a, ex) ==
    IF InvertedInterval(a)
    THEN [called |-> TRUE, err |-> "InvalidIntervalLast",
          files |-> <<>>, probes |-> <<>>]
    ELSE IF NegativeFirst(a)
    THEN [called |-> TRUE, err |-> "InvalidIntervalFirst",
          files |-> <<>>, probes |-> <<>>]
    ELSE Scan(a, ex, a.frame_first, <<>>, <<>>)

\* ------------------------------------------------------------ helpers
\* the sequence <<lo, lo+1, ..., hi>> (empty when hi < lo)
Range(lo, hi) == [k \in 1..(IF hi >= lo THEN hi - lo + 1 ELSE 0) |-> lo + k - 1]

\* the rows lines 204-213 print for one flattened colony
RowsOfFrame(c) == [k \in 1..c.cells |-> <<c.file, k>>]

\* the rows of a sequence of flattened colonies
RECURSIVE RowsOf(_)
RowsOf(cs) ==
    IF cs = <<>> THEN <<>>
    ELSE RowsOf(SubSeq(cs, 1, Len(cs) - 1)) \o RowsOfFrame(cs[Len(cs)])

\* ------------------------------------------------------------- inputs
\* line 192: auto_temp_schedule returns (temperature, end_temperature)
AutoTempSchedule == {t \in (1..MaxTemp) \X (1..MaxTemp) : t[1] > t[2]}

\* the command lines of a run of the program
CommandLines ==
    [frame_first : 0..1, frame_last : -1..1,
     workers : {-1, 1}, jobs : {-1, 1}, keep : {1, 2},
     cluster : {"", "tcp://scheduler:8786"},
     no_parallel : BOOLEAN, global_optimization : BOOLEAN,
     auto_temp : {0, 1}, start_temp : Temps, end_temp : Temps]

\* the command lines get_inputfiles is examined on
FrameCommandLines ==
    [frame_first : -1..MaxIdx, frame_last : -1..MaxIdx,
     workers : {-1}, jobs : {-1}, keep : {1}, cluster : {""},
     no_parallel : {FALSE}, global_optimization : {FALSE},
     auto_temp : {1}, start_temp : {None}, end_temp : {None}]

\* the directories of a run: frames 0..n-1 present
Prefixes == {0..(n - 1) : n \in 0..(MaxIdx + 1)}

InitRest ==
    /\ args = cli
    /\ pending = "none"
    /\ intAt = "none"
    /\ client = "unset"
    /\ clientsCreated = 0
    /\ lineagefile = "None"
    /\ lineage = <<>>
    /\ frames = <<>>
    /\ fi = 0
    /\ colony = 0
    /\ ci = 0
    /\ committed = <<>>
    /\ optimized = <<>>
    /\ optimizing = {}
    /\ calibrated = 0
    /\ gif = NoCall

\* the program is started: line 227
Init ==
    /\ cli \in CommandLines
    /\ exists \in Prefixes
    /\ pc = "parse_args"
    /\ InitRest

\* get_inputfiles is about to be called on any interval and any directory
InitFiles ==
    /\ cli \in FrameCommandLines
    /\ exists \in SUBSET (0..MaxIdx)
    /\ pc = "get_inputfiles"
    /\ InitRest

\* ------------------------------------------------------------ parse_args
\* lines 68-69
ResolveWorkers(a) ==
    IF a.workers = -1 THEN [a EXCEPT !.workers = CpuCount] ELSE a

\* line 75
ResolveJobs(a) == [a EXCEPT !.jobs = a.workers]

\* lines 66-77, returning
ParseArgs ==
    /\ pc = "parse_args"
    /\ LET w == ResolveWorkers(args) IN
         /\ ~(w.jobs = -1 /\ w.cluster # "")
         /\ args' = IF w.jobs = -1 THEN ResolveJobs(w) ELSE w
    /\ pc' = "main"
    /\ UNCHANGED <<cli, exists, pending, intAt, client, clientsCreated,
                   lineagefile, lineage, frames, fi, colony, ci, committed,
                   optimized, optimizing, calibrated, gif>>

\* lines 71-73: '-j/--jobs is required for non-local clusters'
ParseArgsRaise ==
    /\ pc = "parse_args"
    /\ args.jobs = -1 /\ args.cluster # ""
    /\ args' = ResolveWorkers(args)
    /\ pending' = "ValueError:jobs"
    /\ pc' = "exit"
    /\ UNCHANGED <<cli, exists, intAt, client, clientsCreated,
                   lineagefile, lineage, frames, fi, colony, ci, committed,
                   optimized, optimizing, calibrated, gif>>

\* ------------------------------------------------------------------ main
\* line 147 looking at start_temp only
TempConflictStartOnly(a) == a.start_temp # None /\ a.auto_temp = 1

\* line 147
TempConflict(a) ==
    (a.start_temp # None \/ a.end_temp # None) /\ a.auto_temp = 1

\* lines 147-148, raising
CheckTempsRaise ==
    /\ pc = "main"
    /\ TempConflict(args)
    /\ pending' = "Exception:temp"
    /\ pc' = "exit"
    /\ UNCHANGED <<cli, args, exists, intAt, client, clientsCreated,
                   lineagefile, lineage, frames, fi, colony, ci, committed,
                   optimized, optimizing, calibrated, gif>>

\* line 147, passing
CheckTemps ==
    /\ pc = "main"
    /\ ~TempConflict(args)
    /\ pc' = "client"
    /\ UNCHANGED <<cli, args, exists, pending, intAt, client, clientsCreated,
                   lineagefile, lineage, frames, fi, colony, ci, committed,
                   optimized, optimizing, calibrated, gif>>

\* lines 150-162
MakeClient ==
    /\ pc = "client"
    /\ IF ~args.no_parallel
       THEN client' = "open" /\ clientsCreated' = clientsCreated + 1
       ELSE client' = "None" /\ UNCHANGED clientsCreated
    /\ pc' = "try"
    /\ UNCHANGED <<cli, args, exists, pending, intAt,
                   lineagefile, lineage, frames, fi, colony, ci, committed,
                   optimized, optimizing, calibrated, gif>>

\* lines 154-160: LocalCluster(...) or Client(cluster) raises
MakeClientRaise ==
    /\ pc = "client"
    /\ ~args.no_parallel
    /\ pending' = "ClientError"
    /\ pc' = "exit"
    /\ UNCHANGED <<cli, args, exists, intAt, client, clientsCreated,
                   lineagefile, lineage, frames, fi, colony, ci, committed,
                   optimized, optimizing, calibrated, gif>>

\* lines 164-167
EnterTry ==
    /\ pc = "try"
    /\ lineagefile' = "None"
    /\ pc' = "load_config"
    /\ UNCHANGED <<cli, args, exists, pending, intAt, client, clientsCreated,
                   lineage, frames, fi, colony, ci, committed,
                   optimized, optimizing, calibrated, gif>>

\* lines 168-172
LoadConfig ==
    /\ pc = "load_config"
    /\ pc' = "load_colony"
    /\ UNCHANGED <<cli, args, exists, pending, intAt, client, clientsCreated,
                   lineagefile, lineage, frames, fi, colony, ci, committed,
                   optimized, optimizing, calibrated, gif>>

\* line 171: load_config raises (lines 85-97)
LoadConfigRaise ==
    /\ pc = "load_config"
    /\ pending' = "ValueError:config"
    /\ optimizing' = {}
    /\ pc' = "finally"
    /\ UNCHANGED <<cli, args, exists, intAt, client, clientsCreated,
                   lineagefile, lineage, frames, fi, colony, ci, committed,
                   optimized, calibrated, gif>>

\* lines 175-177
LoadColony ==
    /\ pc = "load_colony"
    /\ pc' = "open"
    /\ UNCHANGED <<cli, args, exists, pending, intAt, client, clientsCreated,
                   lineagefile, lineage, frames, fi, colony, ci, committed,
                   optimized, optimizing, calibrated, gif>>

\* line 177: load_colony raises on a malformed record (lines 109-116)
LoadColonyRaise ==
    /\ pc = "load_colony"
    /\ pending' = "ColonyError"
    /\ optimizing' = {}
    /\ pc' = "finally"
    /\ UNCHANGED <<cli, args, exists, intAt, client, clientsCreated,
                   lineagefile, lineage, frames, fi, colony, ci, committed,
                   optimized, calibrated, gif>>

\* line 180
OpenLineage ==
    /\ pc = "open"
    /\ lineagefile' = "open"
    /\ lineage' = <<>>
    /\ pc' = "header"
    /\ UNCHANGED <<cli, args, exists, pending, intAt, client, clientsCreated,
                   frames, fi, colony, ci, committed,
                   optimized, optimizing, calibrated, gif>>

\* line 180: open raises
OpenLineageRaise ==
    /\ pc = "open"
    /\ pending' = "OSError"
    /\ optimizing' = {}
    /\ pc' = "finally"
    /\ UNCHANGED <<cli, args, exists, intAt, client, clientsCreated,
                   lineagefile, lineage, frames, fi, colony, ci, committed,
                   optimized, calibrated, gif>>

\* lines 181-184
PrintHeader ==
    /\ pc = "header"
    /\ lineage' = Append(lineage, Header)
    /\ pc' = "mode"
    /\ UNCHANGED <<cli, args, exists, pending, intAt, client, clientsCreated,
                   lineagefile, frames, fi, colony, ci, committed,
                   optimized, optimizing, calibrated, gif>>

\* lines 186-188: global_optimization.optimize(get_inputfiles(args), ...)
GlobalCall ==
    /\ pc = "mode"
    /\ args.global_optimization
    /\ gif' = GetInputFiles(args, exists)
    /\ IF gif'.err # "none"
       THEN pending' = "ValueError:input" /\ pc' = "finally"
       ELSE UNCHANGED pending /\ pc' = "global_optimization"
    /\ UNCHANGED <<cli, args, exists, intAt, client, clientsCreated,
                   lineagefile, lineage, frames, fi, colony, ci, committed,
                   optimized, optimizing, calibrated>>

\* lines 188-189: return 0
GlobalReturn ==
    /\ pc = "global_optimization"
    /\ pending' = "return"
    /\ pc' = "finally"
    /\ UNCHANGED <<cli, args, exists, intAt, client, clientsCreated,
                   lineagefile, lineage, frames, fi, colony, ci, committed,
                   optimized, optimizing, calibrated, gif>>

\* line 188: global_optimization.optimize raises
GlobalRaise ==
    /\ pc = "global_optimization"
    /\ pending' = "JobError"
    /\ optimizing' = {}
    /\ pc' = "finally"
    /\ UNCHANGED <<cli, args, exists, intAt, client, clientsCreated,
                   lineagefile, lineage, frames, fi, colony, ci, committed,
                   optimized, calibrated, gif>>

\* lines 191-192: auto_temp_schedule(get_inputfiles(args)[0], ...)
AutoTempCall ==
    /\ pc = "mode"
    /\ ~args.global_optimization
    /\ args.auto_temp = 1
    /\ gif' = GetInputFiles(args, exists)
    /\ IF gif'.err # "none"
       THEN pending' = "ValueError:input" /\ pc' = "finally" /\ UNCHANGED calibrated
       ELSE IF gif'.files = <<>>
       THEN pending' = "IndexError" /\ pc' = "finally" /\ UNCHANGED calibrated
       ELSE /\ UNCHANGED pending
            /\ calibrated' = calibrated + 1
            /\ pc' = "auto_temp_schedule"
    /\ UNCHANGED <<cli, args, exists, intAt, client, clientsCreated,
                   lineagefile, lineage, frames, fi, colony, ci, committed,
                   optimized, optimizing>>

\* lines 192-196: the schedule is stored in args
AutoTempReturn ==
    /\ pc = "auto_temp_schedule"
    /\ \E t \in AutoTempSchedule :
         args' = [args EXCEPT !.start_temp = <<t[1]>>, !.end_temp = <<t[2]>>]
    /\ pc' = "for"
    /\ UNCHANGED <<cli, exists, pending, intAt, client, clientsCreated,
                   lineagefile, lineage, frames, fi, colony, ci, committed,
                   optimized, optimizing, calibrated, gif>>

\* line 192: auto_temp_schedule raises
AutoTempRaise ==
    /\ pc = "auto_temp_schedule"
    /\ pending' = "JobError"
    /\ optimizing' = {}
    /\ pc' = "finally"
    /\ UNCHANGED <<cli, args, exists, intAt, client, clientsCreated,
                   lineagefile, lineage, frames, fi, colony, ci, committed,
                   optimized, calibrated, gif>>

\* line 191: auto_temp is not 1
ManualTemp ==
    /\ pc = "mode"
    /\ ~args.global_optimization
    /\ args.auto_temp # 1
    /\ pc' = "for"
    /\ UNCHANGED <<cli, args, exists, pending, intAt, client, clientsCreated,
                   lineagefile, lineage, frames, fi, colony, ci, committed,
                   optimized, optimizing, calibrated, gif>>

\* line 198: the iterable of the frame loop
ForFrames ==
    /\ pc = "for"
    /\ gif' = GetInputFiles(args, exists)
    /\ IF gif'.err # "none"
       THEN /\ pending' = "ValueError:input" /\ pc' = "finally"
            /\ UNCHANGED <<frames, fi>>
       ELSE /\ frames' = gif'.files /\ fi' = 1 /\ pc' = "next"
            /\ UNCHANGED pending
    /\ UNCHANGED <<cli, args, exists, intAt, client, clientsCreated,
                   lineagefile, lineage, colony, ci, committed,
                   optimized, optimizing, calibrated>>

\* lines 198-200: the next imagefile is taken and optimize is called
OptimizeCall ==
    /\ pc = "next"
    /\ fi <= Len(frames)
    /\ optimized' = Append(optimized, frames[fi])
    /\ optimizing' = optimizing \cup {frames[fi]}
    /\ pc' = "optimize"
    /\ UNCHANGED <<cli, args, exists, pending, intAt, client, clientsCreated,
                   lineagefile, lineage, frames, fi, colony, ci, committed,
                   calibrated, gif>>

\* line 198: the frame loop is exhausted
LoopEnd ==
    /\ pc = "next"
    /\ fi > Len(frames)
    /\ pc' = "finally"
    /\ UNCHANGED <<cli, args, exists, pending, intAt, client, clientsCreated,
                   lineagefile, lineage, frames, fi, colony, ci, committed,
                   optimized, optimizing, calibrated, gif>>

\* line 200: optimize returns the colony selected for the frame
OptimizeReturn ==
    /\ pc = "optimize"
    /\ \E n \in 0..MaxCells : colony' = n
    /\ optimizing' = optimizing \ {frames[fi]}
    /\ pc' = "flatten"
    /\ UNCHANGED <<cli, args, exists, pending, intAt, client, clientsCreated,
                   lineagefile, lineage, frames, fi, ci, committed,
                   optimized, calibrated, gif>>

\* line 200: optimize raises
OptimizeRaise ==
    /\ pc = "optimize"
    /\ pending' = "JobError"
    /\ optimizing' = {}
    /\ pc' = "finally"
    /\ UNCHANGED <<cli, args, exists, intAt, client, clientsCreated,
                   lineagefile, lineage, frames, fi, colony, ci, committed,
                   optimized, calibrated, gif>>

\* lines 203-204 without the call of colony.flatten()
FlattenOmitted ==
    /\ pc = "flatten"
    /\ ci' = 1
    /\ pc' = "write"
    /\ UNCHANGED <<cli, args, exists, pending, intAt, client, clientsCreated,
                   lineagefile, lineage, frames, fi, colony, committed,
                   optimized, optimizing, calibrated, gif>>

\* lines 203-204: the colony is committed, the row loop starts
Flatten ==
    /\ pc = "flatten"
    /\ committed' = Append(committed, [file |-> frames[fi], cells |-> colony])
    /\ ci' = 1
    /\ pc' = "write"
    /\ UNCHANGED <<cli, args, exists, pending, intAt, client, clientsCreated,
                   lineagefile, lineage, frames, fi, colony,
                   optimized, optimizing, calibrated, gif>>

\* lines 204-213: the row of one cell is printed
WriteRow ==
    /\ pc = "write"
    /\ ci <= colony
    /\ lineage' = Append(lineage, <<frames[fi], ci>>)
    /\ ci' = ci + 1
    /\ UNCHANGED <<cli, args, exists, pc, pending, intAt, client,
                   clientsCreated, lineagefile, frames, fi, colony, committed,
                   optimized, optimizing, calibrated, gif>>

\* line 204: the row loop is exhausted; back to line 198
EndRows ==
    /\ pc = "write"
    /\ ci > colony
    /\ fi' = fi + 1
    /\ pc' = "next"
    /\ UNCHANGED <<cli, args, exists, pending, intAt, client, clientsCreated,
                   lineagefile, lineage, frames, colony, ci, committed,
                   optimized, optimizing, calibrated, gif>>

\* lines 217-219 closing the file on the normal path only
FinallyCloseOnSuccess ==
    /\ pc = "finally"
    /\ lineagefile' = IF lineagefile # "None" /\ pending = "none"
                      THEN "closed" ELSE lineagefile
    /\ pc' = IF pending = "none" THEN "time" ELSE "exit"
    /\ UNCHANGED <<cli, args, exists, pending, intAt, client, clientsCreated,
                   lineage, frames, fi, colony, ci, committed,
                   optimized, optimizing, calibrated, gif>>

\* lines 217-219: the finally clause; then the pending exception or return
\* is resumed, or main goes on to line 221
\* (the clause is one step: no KeyboardInterrupt is delivered inside it)
Finally ==
    /\ pc = "finally"
    /\ lineagefile' = IF lineagefile # "None" THEN "closed" ELSE lineagefile
    /\ pc' = IF pending = "none" THEN "time" ELSE "exit"
    /\ UNCHANGED <<cli, args, exists, pending, intAt, client, clientsCreated,
                   lineage, frames, fi, colony, ci, committed,
                   optimized, optimizing, calibrated, gif>>

\* lines 221-223
PrintTime ==
    /\ pc = "time"
    /\ pending' = "return"
    /\ pc' = "exit"
    /\ UNCHANGED <<cli, args, exists, intAt, client, clientsCreated,
                   lineagefile, lineage, frames, fi, colony, ci, committed,
                   optimized, optimizing, calibrated, gif>>

\* the positions of lines 168-213, inside the try block
TryBody == {"load_config", "load_colony", "open", "header", "mode",
            "global_optimization", "auto_temp_schedule", "for", "next",
            "optimize", "flatten", "write"}

\* the positions of main outside the try block (lines 147-165, 221-223)
OutsideTry == {"main", "client", "try", "time"}

\* lines 215-216: a KeyboardInterrupt delivered inside the try block is
\* re-raised, through the finally clause
InterruptInTry ==
    /\ pc \in TryBody
    /\ intAt' = pc
    /\ pending' = "KeyboardInterrupt"
    /\ optimizing' = {}
    /\ pc' = "finally"
    /\ UNCHANGED <<cli, args, exists, client, clientsCreated,
                   lineagefile, lineage, frames, fi, colony, ci, committed,
                   optimized, calibrated, gif>>

\* a KeyboardInterrupt delivered to main outside the try block propagates
InterruptOutsideTry ==
    /\ pc \in OutsideTry
    /\ intAt' = pc
    /\ pending' = "KeyboardInterrupt"
    /\ pc' = "exit"
    /\ UNCHANGED <<cli, args, exists, client, clientsCreated,
                   lineagefile, lineage, frames, fi, colony, ci, committed,
                   optimized, optimizing, calibrated, gif>>

\* ------------------------------------------- get_inputfiles on its own
\* lines 121-142 applied to the interval and the directory of the state
CallGetInputFiles ==
    /\ pc = "get_inputfiles"
    /\ gif' = GetInputFiles(args, exists)
    /\ gif'.err = "none"
    /\ frames' = gif'.files
    /\ pc' = "returned"
    /\ UNCHANGED <<cli, args, exists, pending, intAt, client, clientsCreated,
                   lineagefile, lineage, fi, colony, ci, committed,
                   optimized, optimizing, calibrated>>

\* lines 126, 128, 140: get_inputfiles raises ValueError
CallGetInputFilesRaise ==
    /\ pc = "get_inputfiles"
    /\ gif' = GetInputFiles(args, exists)
    /\ gif'.err # "none"
    /\ pending' = "ValueError:input"
    /\ pc' = "raised"
    /\ UNCHANGED <<cli, args, exists, intAt, client, clientsCreated,
                   lineagefile, lineage, frames, fi, colony, ci, committed,
                   optimized, optimizing, calibrated>>

\* ------------------------------------------------------ specifications
Next ==
    \/ ParseArgs \/ ParseArgsRaise
    \/ CheckTemps \/ CheckTempsRaise
    \/ MakeClient \/ MakeClientRaise
    \/ EnterTry
    \/ LoadConfig \/ LoadConfigRaise
    \/ LoadColony \/ LoadColonyRaise
    \/ OpenLineage \/ OpenLineageRaise
    \/ PrintHeader
    \/ GlobalCall \/ GlobalReturn \/ GlobalRaise
    \/ AutoTempCall \/ AutoTempReturn \/ AutoTempRaise
    \/ ManualTemp
    \/ ForFrames
    \/ OptimizeCall \/ OptimizeReturn \/ OptimizeRaise
    \/ LoopEnd
    \/ Flatten
    \/ WriteRow \/ EndRows
    \/ Finally
    \/ PrintTime
    \/ InterruptInTry \/ InterruptOutsideTry

Spec == Init /\ [][Next]_vars

NextFiles == CallGetInputFiles \/ CallGetInputFilesRaise

SpecFiles == InitFiles /\ [][NextFiles]_vars

\* ================================================================ claims
\* the contiguous run of existing files that starts at frame_first ends
\* just before index n
RunEndsAt(n) ==
    /\ args.frame_first >= 0
    /\ n > args.frame_first
    /\ \A k \in args.frame_first..(n - 1) : k \in exists
    /\ n \notin exists

\* C1: when the files of frame_first..n-1 exist and the file of n does not,
\* get_inputfiles returns frame_first..n-1 in ascending order for
\* frame_last = -1 (probing up to n and no further, without an error) and
\* frame_first..frame_last for frame_first <= frame_last < n, whatever
\* exists beyond frame_last.
C1_FrameDiscovery ==
    gif.called =>
      \A n \in 0..(MaxIdx + 1) :
        RunEndsAt(n) =>
          /\ args.frame_last = -1 =>
               /\ gif.err = "none"
               /\ gif.files = Range(args.frame_first, n - 1)
               /\ gif.probes = Range(args.frame_first, n)
          /\ (args.frame_first <= args.frame_last /\ args.frame_last < n) =>
               /\ gif.err = "none"
               /\ gif.files = Range(args.frame_first, args.frame_last)

\* C1 witness: frame_last cuts the list short of files that exist beyond it
C1_Witness ==
    /\ pc = "returned"
    /\ args.frame_first = 0
    /\ args.frame_last = 1
    /\ {0, 1, 2} \subseteq exists
    /\ gif.files = <<0, 1>>

\* C6: get_inputfiles raises 'Input file not found' when the file of
\* frame_first is missing, or when frame_last >= frame_first and a file of
\* frame_first..frame_last is missing; a list it returns is never empty and
\* holds consecutive indexes of existing files, starting at frame_first.
C6_MissingFrameIsError ==
    gif.called =>
      /\ ( /\ args.frame_first >= 0
           /\ \/ args.frame_first \notin exists
              \/ /\ args.frame_last >= args.frame_first
                 /\ \E i \in args.frame_first..args.frame_last : i \notin exists )
         => gif.err = "InputFileNotFound"
      /\ gif.err # "none" => gif.files = <<>>
      /\ gif.err = "none" =>
           /\ gif.files # <<>>
           /\ \A k \in 1..Len(gif.files) :
                /\ gif.files[k] = args.frame_first + k - 1
                /\ gif.files[k] \in exists

\* C6 witness: a file is missing inside the requested interval, after
\* files that exist
C6_Witness ==
    /\ pc = "raised"
    /\ gif.err = "InputFileNotFound"
    /\ args.frame_first \in exists
    /\ args.frame_last > args.frame_first
    /\ \E i \in args.frame_first..args.frame_last : i \notin exists

\* C10: an inverted interval (frame_last >= 0 and frame_first > frame_last)
\* is rejected with 'Invalid interval: frame_first must be less than
\* frame_last' before the existence of any file is probed.
C10_InvertedIntervalRejected ==
    (gif.called /\ args.frame_last >= 0 /\ args.frame_first > args.frame_last)
      => (gif.err = "InvalidIntervalLast" /\ gif.probes = <<>>)

\* the command line asks for auto mode and supplies a manual temperature
AutoWithManualTemp ==
    cli.auto_temp = 1 /\ (cli.start_temp # None \/ cli.end_temp # None)

\* C2: with auto_temp = 1 and start_temp or end_temp supplied, main raises
\* at its first statement: the run never gets past line 147, no calibration
\* runs, no frame is optimized, no line is written to the lineage file, and
\* main does not return normally.
C2_AutoExcludesManualTemp ==
    AutoWithManualTemp =>
      /\ pc \in {"parse_args", "main", "exit"}
      /\ calibrated = 0
      /\ optimized = <<>>
      /\ optimizing = {}
      /\ lineage = <<>>
      /\ lineagefile = "None"
      /\ pc = "exit" =>
           pending \in {"ValueError:jobs", "Exception:temp", "KeyboardInterrupt"}
      /\ (pc = "exit" /\ intAt = "none" /\ args.jobs # -1) =>
           pending = "Exception:temp"

\* C2 witness: only end_temp is supplied and main has raised
C2_Witness ==
    /\ pc = "exit"
    /\ pending = "Exception:temp"
    /\ cli.auto_temp = 1
    /\ cli.start_temp = None
    /\ cli.end_temp # None

\* C3: once the defaults of workers and jobs are resolved, keep > jobs
\* stops the run before any frame is optimized: optimize is never called
\* with keep > jobs.
C3_KeepAtMostJobs ==
    (pc # "parse_args" /\ args.keep > args.jobs) => optimized = <<>>

\* start_temp > end_temp > 0, both supplied
ValidTemps(s, e) == s # None /\ e # None /\ s[1] > e[1] /\ e[1] > 0

\* C7: in manual temperature mode (auto_temp # 1) a run whose start_temp or
\* end_temp is missing, non-positive, or has start_temp <= end_temp never
\* reaches the optimization of a frame.
C7_ManualTempsValidated ==
    (cli.auto_temp # 1 /\ ~ValidTemps(cli.start_temp, cli.end_temp))
      => optimized = <<>>

\* C4: when main exits on a KeyboardInterrupt delivered in the frame loop,
\* the lineage file holds the header followed by the complete row sets of
\* the completed frames, and no row of an interrupted frame: it is the
\* header and all rows of the first k committed colonies, where k counts
\* the finished loop iterations, and possibly the frame whose rows were
\* being written.
C4_InterruptKeepsWholeFrames ==
    ( /\ pc = "exit"
      /\ pending = "KeyboardInterrupt"
      /\ intAt \in {"next", "optimize", "flatten", "write"} )
      => \E k \in {fi - 1, fi} :
           /\ k <= Len(committed)
           /\ lineage = <<Header>> \o RowsOf(SubSeq(committed, 1, k))

C8_FramesSequential ==
    /\ Cardinality(optimizing) <= 1
    /\ Len(optimized) <= Len(frames)
    /\ \A k \in 1..Len(optimized) : optimized[k] = frames[k]
    /\ \A k \in 1..(Len(optimized) - 1) : optimized[k] < optimized[k + 1]
    /\ pc = "optimize" =>
         /\ optimizing = {optimized[Len(optimized)]}
         /\ Len(committed) = Len(optimized) - 1
         /\ \A k \in 1..Len(committed) : committed[k].file = optimized[k]
         /\ lineage = <<Header>> \o RowsOf(committed)

\* C8 witness: the second frame is being optimized after rows of the first
\* were written
C8_Witness ==
    /\ pc = "optimize"
    /\ Len(optimized) = 2
    /\ Len(lineage) >= 2

\* C9: the dask client is created at most once per run and is released on
\* every exit path: main never exits while the client it created is open.
C9_ClientReleased ==
    /\ clientsCreated <= 1
    /\ pc = "exit" => client # "open"

====
